---- MODULE Spec2Model ----
(***************************************************************************)
(* The built-in scalars of src/type/scalars.ts (Int, Float, String,        *)
(* Boolean, ID), the specifiedScalarTypes registry and serializeObject.    *)
(*                                                                         *)
(* JavaScript values are records tagged by t.  A string is a sequence of   *)
(* one-character strings.  A finite number is a sign, the decimal digits   *)
(* of its integer part (no leading zeros, <<0>> for zero) and the decimal  *)
(* digits of its fraction (no trailing zeros), so that values beyond the   *)
(* 32-bit range are exact.  Within the bounds below every number has at    *)
(* most 15 significant digits, where IEEE 754 doubles and decimals agree.  *)
(***************************************************************************)
EXTENDS Integers, Sequences, FiniteSets, TLC

----------------------------------------------------------------------------
(* Bounds of the input universe. *)

MaxStrLen == 3
MaxSmall == 2
MaxDelta == 2

----------------------------------------------------------------------------
(* Program constants. *)

GRAPHQL_MAX_INT == 2147483647
GRAPHQL_MIN_INT == -2147483647 - 1

----------------------------------------------------------------------------
(* Characters and strings. *)

DigitChars == <<"0", "1", "2", "3", "4", "5", "6", "7", "8", "9">>

IsDigitChar(c) == \E i \in 1..10 : DigitChars[i] = c

CharDigit(c) == (CHOOSE i \in 1..10 : DigitChars[i] = c) - 1

DigitChar(d) == DigitChars[d + 1]

IsWhiteSpace(c) == c = " "

JSString(cs) == [t |-> "string", chars |-> cs]

EmptyString == JSString(<< >>)

RECURSIVE TrimLeft(_)
TrimLeft(cs) ==
  IF cs # << >> /\ IsWhiteSpace(Head(cs)) THEN TrimLeft(Tail(cs)) ELSE cs

RECURSIVE TrimRight(_)
TrimRight(cs) ==
  IF cs # << >> /\ IsWhiteSpace(cs[Len(cs)])
  THEN TrimRight(SubSeq(cs, 1, Len(cs) - 1))
  ELSE cs

Trim(cs) == TrimRight(TrimLeft(cs))

(* The longest prefix of cs made of decimal digit characters. *)
RECURSIVE DigitPrefix(_)
DigitPrefix(cs) ==
  IF cs # << >> /\ IsDigitChar(Head(cs))
  THEN <<Head(cs)>> \o DigitPrefix(Tail(cs))
  ELSE << >>

AllDigits(cs) == \A i \in 1..Len(cs) : IsDigitChar(cs[i])

----------------------------------------------------------------------------
(* Numbers. *)

NaN == [t |-> "number", c |-> "NaN"]

Infinity(neg) == [t |-> "number", c |-> "Infinity", neg |-> neg]

RECURSIVE StripLeadingZeros(_)
StripLeadingZeros(ds) ==
  IF Len(ds) > 1 /\ Head(ds) = 0 THEN StripLeadingZeros(Tail(ds)) ELSE ds

RECURSIVE StripTrailingZeros(_)
StripTrailingZeros(ds) ==
  IF ds # << >> /\ ds[Len(ds)] = 0
  THEN StripTrailingZeros(SubSeq(ds, 1, Len(ds) - 1))
  ELSE ds

Finite(neg, int, frac) ==
  [t |-> "number", c |-> "finite", neg |-> neg,
   int |-> IF int = << >> THEN <<0>> ELSE StripLeadingZeros(int),
   frac |-> StripTrailingZeros(frac)]

IsNaN(x) == x.c = "NaN"

IsFinite(x) == x.c = "finite"

IsZero(x) == IsFinite(x) /\ x.int = <<0>> /\ x.frac = << >>

(* The decimal digits of a natural number. *)
RECURSIVE NatDigits(_)
NatDigits(n) ==
  IF n < 10 THEN <<n>> ELSE NatDigits(n \div 10) \o <<n % 10>>

(* The decimal digits of -n for n <= 0, without negating n (the magnitude  *)
(* of GRAPHQL_MIN_INT has no 32-bit two's complement representation).      *)
RECURSIVE NegDigits(_)
NegDigits(n) ==
  LET d == (10 - (n % 10)) % 10
  IN  IF n > -10 THEN <<d>> ELSE NegDigits((n + d) \div 10) \o <<d>>

(* The number denoted by an integer numeric literal of the source. *)
FromInt(n) ==
  IF n >= 0 THEN Finite(FALSE, NatDigits(n), << >>)
  ELSE Finite(TRUE, NegDigits(n), << >>)

(* Magnitude + 1 on decimal digits. *)
RECURSIVE Plus1(_)
Plus1(ds) ==
  IF ds = << >> THEN <<1>>
  ELSE IF ds[Len(ds)] < 9
       THEN SubSeq(ds, 1, Len(ds) - 1) \o <<ds[Len(ds)] + 1>>
       ELSE Plus1(SubSeq(ds, 1, Len(ds) - 1)) \o <<0>>

(* Lexicographic order on digit sequences; a missing digit counts as 0. *)
RECURSIVE LexLess(_, _)
LexLess(a, b) ==
  IF b = << >> THEN FALSE
  ELSE IF a = << >> THEN \E i \in 1..Len(b) : b[i] # 0
  ELSE IF Head(a) # Head(b) THEN Head(a) < Head(b)
  ELSE LexLess(Tail(a), Tail(b))

(* |a| < |b| for finite a and b. *)
MagLess(a, b) ==
  IF Len(a.int) # Len(b.int) THEN Len(a.int) < Len(b.int)
  ELSE IF a.int # b.int THEN LexLess(a.int, b.int)
  ELSE LexLess(a.frac, b.frac)

(* a < b on numbers (IsLooselyEqual never applies: both are numbers). *)
NumLess(a, b) ==
  IF IsNaN(a) \/ IsNaN(b) THEN FALSE
  ELSE IF ~IsFinite(a) THEN a.neg /\ ~(~IsFinite(b) /\ b.neg)
  ELSE IF ~IsFinite(b) THEN ~b.neg
  ELSE IF IsZero(a) /\ IsZero(b) THEN FALSE
  ELSE IF a.neg # b.neg THEN a.neg
  ELSE IF a.neg THEN MagLess(b, a)
  ELSE MagLess(a, b)

NumGreater(a, b) == NumLess(b, a)

(* a <= b and a >= b of JavaScript: false when either side is NaN. *)
NumEq(a, b) ==
  /\ ~IsNaN(a)
  /\ ~IsNaN(b)
  /\ \/ a = b
     \/ IsZero(a) /\ IsZero(b)

NumLessEq(a, b) == NumLess(a, b) \/ NumEq(a, b)

NumGreaterEq(a, b) == NumLessEq(b, a)

(* Math.floor *)
MathFloor(x) ==
  IF ~IsFinite(x) \/ x.frac = << >> THEN x
  ELSE IF x.neg THEN Finite(TRUE, Plus1(x.int), << >>)
  ELSE Finite(FALSE, x.int, << >>)

----------------------------------------------------------------------------
(* The other values: undefined, null, booleans, arrays and objects.  An    *)
(* object carries its valueOf and toJSON properties; a property is absent  *)
(* (not a function) or a zero-argument function with a fixed result, which *)
(* is a value or This, the receiver itself (Object.prototype.valueOf).     *)
(* Objects inherit Object.prototype.toString.                              *)

Undefined == [t |-> "undefined"]

Null == [t |-> "null"]

JSBoolean(b) == [t |-> "boolean", b |-> b]

JSArray(items) == [t |-> "array", items |-> items]

This == [t |-> "this"]

Absent == [is |-> "absent"]

Function(r) == [is |-> "function", returns |-> r]

JSObject(valueOf, toJSON) == [t |-> "object", valueOf |-> valueOf, toJSON |-> toJSON]

(* typeof value == 'object' && value !== null *)
isObjectLike(value) == value.t \in {"array", "object"}

ArrayIsArray(value) == value.t = "array"

(* The property `name` of an object-like value. *)
GetMethod(v, name) ==
  IF v.t = "object" THEN (IF name = "valueOf" THEN v.valueOf ELSE v.toJSON)
  ELSE IF name = "valueOf" THEN Function(This)
  ELSE Absent

IsFunction(m) == m.is = "function"

(* v.m() *)
Invoke(v, m) == IF m.returns = This THEN v ELSE m.returns

(* x === y, where one side is a primitive (objects compare by identity,   *)
(* which no comparison of the scalars needs).                              *)
StrictEquals(x, y) ==
  IF x.t # y.t THEN FALSE
  ELSE IF x.t = "number" THEN NumEq(x, y)
  ELSE x = y

----------------------------------------------------------------------------
(* Conversions of the runtime. *)

Chars_undefined == <<"u", "n", "d", "e", "f", "i", "n", "e", "d">>
Chars_null == <<"n", "u", "l", "l">>
Chars_true == <<"t", "r", "u", "e">>
Chars_false == <<"f", "a", "l", "s", "e">>
Chars_NaN == <<"N", "a", "N">>
Chars_Infinity == <<"I", "n", "f", "i", "n", "i", "t", "y">>
Chars_objectObject ==
  <<"[", "o", "b", "j", "e", "c", "t", " ", "O", "b", "j", "e", "c", "t", "]">>

DigitsToChars(ds) == [i \in 1..Len(ds) |-> DigitChar(ds[i])]

CharsToDigits(cs) == [i \in 1..Len(cs) |-> CharDigit(cs[i])]

(* Number::toString(x), radix 10, for 1e-6 <= |x| < 1e21 or x = 0 *)
NumberToString(x) ==
  IF IsNaN(x) THEN Chars_NaN
  ELSE IF ~IsFinite(x) THEN (IF x.neg THEN <<"-">> ELSE << >>) \o Chars_Infinity
  ELSE (IF x.neg /\ ~IsZero(x) THEN <<"-">> ELSE << >>)
       \o DigitsToChars(x.int)
       \o (IF x.frac = << >> THEN << >> ELSE <<".">> \o DigitsToChars(x.frac))

(* StringToNumber: StrWhiteSpace, sign, Infinity and StrDecimalLiteral;    *)
(* every other text is NaN.  The alphabet of the inputs has no exponent    *)
(* and no radix prefix, which are therefore not parsed.                    *)
StringToNumber(cs) ==
  LET s == Trim(cs)
      signed == s # << >> /\ Head(s) \in {"-", "+"}
      neg == s # << >> /\ Head(s) = "-"
      body == IF signed THEN Tail(s) ELSE s
      ip == DigitPrefix(body)
      rest == SubSeq(body, Len(ip) + 1, Len(body))
  IN  IF s = << >> THEN Finite(FALSE, <<0>>, << >>)
      ELSE IF body = Chars_Infinity THEN Infinity(neg)
      ELSE IF rest = << >>
           THEN (IF ip = << >> THEN NaN ELSE Finite(neg, CharsToDigits(ip), << >>))
      ELSE IF Head(rest) = "." /\ AllDigits(Tail(rest))
              /\ (ip # << >> \/ Tail(rest) # << >>)
           THEN Finite(neg, CharsToDigits(ip), CharsToDigits(Tail(rest)))
      ELSE NaN

(* parseInt(string, 10) *)
parseInt10(cs) ==
  LET s == TrimLeft(cs)
      signed == s # << >> /\ Head(s) \in {"-", "+"}
      neg == s # << >> /\ Head(s) = "-"
      ip == DigitPrefix(IF signed THEN Tail(s) ELSE s)
  IN  IF ip = << >> THEN NaN ELSE Finite(neg, CharsToDigits(ip), << >>)

RECURSIVE ToStringChars(_)
RECURSIVE ArrayJoin(_)

(* Array.prototype.join(','): undefined and null elements are empty. *)
ArrayJoin(items) ==
  IF items = << >> THEN << >>
  ELSE (IF Head(items).t \in {"undefined", "null"} THEN << >>
        ELSE ToStringChars(Head(items)))
       \o (IF Tail(items) = << >> THEN << >> ELSE <<",">> \o ArrayJoin(Tail(items)))

(* The characters of String(v). *)
ToStringChars(v) ==
  CASE v.t = "undefined" -> Chars_undefined
    [] v.t = "null" -> Chars_null
    [] v.t = "boolean" -> (IF v.b THEN Chars_true ELSE Chars_false)
    [] v.t = "number" -> NumberToString(v)
    [] v.t = "string" -> v.chars
    [] v.t = "array" -> ArrayJoin(v.items)
    [] v.t = "object" -> Chars_objectObject

(* String(v) *)
String(v) == JSString(ToStringChars(v))

(* ToPrimitive(v, number): valueOf() unless it yields an object, else      *)
(* toString().                                                             *)
ToPrimitiveNumber(v) ==
  IF ~isObjectLike(v) THEN v
  ELSE LET m == GetMethod(v, "valueOf")
       IN  IF IsFunction(m) /\ ~isObjectLike(Invoke(v, m)) THEN Invoke(v, m)
           ELSE String(v)

(* Number(v) *)
Number(v) ==
  LET p == ToPrimitiveNumber(v)
  IN  CASE p.t = "undefined" -> NaN
        [] p.t = "null" -> FromInt(0)
        [] p.t = "boolean" -> (IF p.b THEN FromInt(1) ELSE FromInt(0))
        [] p.t = "number" -> p
        [] p.t = "string" -> StringToNumber(p.chars)

(* Boolean(v) *)
Boolean(v) ==
  JSBoolean(CASE v.t \in {"undefined", "null"} -> FALSE
              [] v.t = "boolean" -> v.b
              [] v.t = "number" -> ~(IsNaN(v) \/ IsZero(v))
              [] v.t = "string" -> v.chars # << >>
              [] v.t \in {"array", "object"} -> TRUE)

----------------------------------------------------------------------------
(* Outcomes of a call: a returned value or a thrown TypeError.  A message  *)
(* is the literal text of the source, the characters appended to it and    *)
(* the literal text that closes it.                                        *)

Return(v) == [kind |-> "return", value |-> v]

Message(text, cs, tail) == [text |-> text, value |-> cs, tail |-> tail]

ThrowTypeError(m) == [kind |-> "throw", error |-> "TypeError", message |-> m]

(* parseLiteral's "not applicable" is the value undefined. *)
NotApplicable == Undefined

----------------------------------------------------------------------------
(* Syntax-tree nodes: a kind and, for the kinds that have one, a value. *)

Kind ==
  [INT |-> "IntValue", FLOAT |-> "FloatValue", STRING |-> "StringValue",
   BOOLEAN |-> "BooleanValue", NULL |-> "NullValue", ENUM |-> "EnumValue"]

Node(kind, value) == [kind |-> kind, value |-> value]

----------------------------------------------------------------------------
(* GraphQLInt *)

(* Variant: the integrality check made before the range check. *)
Int_serialize_FloorFirst(outputValue) ==
  IF StrictEquals(outputValue, EmptyString)
  THEN ThrowTypeError(Message(
         "Int cannot represent non 32-bit signed integer value: (empty string)",
         << >>, ""))
  ELSE LET num == Number(outputValue)
           int == MathFloor(num)
       IN  IF StrictEquals(num, num) /\ ~StrictEquals(int, num)
           THEN ThrowTypeError(Message(
                  "Int cannot represent non-integer value: ",
                  ToStringChars(outputValue), ""))
           ELSE IF \/ ~StrictEquals(num, num)
                   \/ NumGreater(num, FromInt(GRAPHQL_MAX_INT))
                   \/ NumLess(num, FromInt(GRAPHQL_MIN_INT))
                THEN ThrowTypeError(Message(
                       "Int cannot represent non 32-bit signed integer value: ",
                       ToStringChars(outputValue), ""))
                ELSE Return(int)

Int_serialize(outputValue) ==
  IF StrictEquals(outputValue, EmptyString)
  THEN ThrowTypeError(Message(
         "Int cannot represent non 32-bit signed integer value: (empty string)",
         << >>, ""))
  ELSE LET num == Number(outputValue)
       IN  IF \/ ~StrictEquals(num, num)
              \/ NumGreater(num, FromInt(GRAPHQL_MAX_INT))
              \/ NumLess(num, FromInt(GRAPHQL_MIN_INT))
           THEN ThrowTypeError(Message(
                  "Int cannot represent non 32-bit signed integer value: ",
                  ToStringChars(outputValue), ""))
           ELSE LET int == MathFloor(num)
                IN  IF ~StrictEquals(int, num)
                    THEN ThrowTypeError(Message(
                           "Int cannot represent non-integer value: ",
                           ToStringChars(outputValue), ""))
                    ELSE Return(int)

(* Variant: the upper bound excluded (num >= GRAPHQL_MAX_INT). *)
Int_parseValue_ExclusiveMax(inputValue) ==
  IF StrictEquals(inputValue, EmptyString)
  THEN ThrowTypeError(Message(
         "Int cannot represent non 32-bit signed integer value: (empty string)",
         << >>, ""))
  ELSE LET num == Number(inputValue)
       IN  IF \/ ~StrictEquals(num, num)
              \/ NumGreaterEq(num, FromInt(GRAPHQL_MAX_INT))
              \/ NumLess(num, FromInt(GRAPHQL_MIN_INT))
           THEN ThrowTypeError(Message(
                  "Int cannot represent non 32-bit signed integer value: ",
                  ToStringChars(inputValue), ""))
           ELSE LET int == MathFloor(num)
                IN  IF ~StrictEquals(int, num)
                    THEN ThrowTypeError(Message(
                           "Int cannot represent non-integer value: ",
                           ToStringChars(inputValue), ""))
                    ELSE Return(int)

Int_parseValue(inputValue) ==
  IF StrictEquals(inputValue, EmptyString)
  THEN ThrowTypeError(Message(
         "Int cannot represent non 32-bit signed integer value: (empty string)",
         << >>, ""))
  ELSE LET num == Number(inputValue)
       IN  IF \/ ~StrictEquals(num, num)
              \/ NumGreater(num, FromInt(GRAPHQL_MAX_INT))
              \/ NumLess(num, FromInt(GRAPHQL_MIN_INT))
           THEN ThrowTypeError(Message(
                  "Int cannot represent non 32-bit signed integer value: ",
                  ToStringChars(inputValue), ""))
           ELSE LET int == MathFloor(num)
                IN  IF ~StrictEquals(int, num)
                    THEN ThrowTypeError(Message(
                           "Int cannot represent non-integer value: ",
                           ToStringChars(inputValue), ""))
                    ELSE Return(int)

(* Variant: an out-of-range literal raises an error, as values do. *)
Int_parseLiteral_Throws(ast) ==
  IF ast.kind = Kind.INT
  THEN LET num == parseInt10(ToStringChars(ast.value))
       IN  IF /\ NumLessEq(num, FromInt(GRAPHQL_MAX_INT))
              /\ NumGreaterEq(num, FromInt(GRAPHQL_MIN_INT))
           THEN Return(num)
           ELSE ThrowTypeError(Message(
                  "Int cannot represent non 32-bit signed integer value: ",
                  ToStringChars(ast.value), ""))
  ELSE Return(Undefined)

(* Variant: the range check of the literal left out. *)
Int_parseLiteral_NoRangeCheck(ast) ==
  IF ast.kind = Kind.INT
  THEN Return(parseInt10(ToStringChars(ast.value)))
  ELSE Return(Undefined)

Int_parseLiteral(ast) ==
  IF ast.kind = Kind.INT
  THEN LET num == parseInt10(ToStringChars(ast.value))
       IN  IF /\ NumLessEq(num, FromInt(GRAPHQL_MAX_INT))
              /\ NumGreaterEq(num, FromInt(GRAPHQL_MIN_INT))
           THEN Return(num)
           ELSE Return(Undefined)
  ELSE Return(Undefined)

----------------------------------------------------------------------------
(* GraphQLFloat *)

Float_serialize(outputValue) ==
  IF StrictEquals(outputValue, EmptyString)
  THEN ThrowTypeError(Message(
         "Float cannot represent non numeric value: (empty string)", << >>, ""))
  ELSE LET num == Number(outputValue)
       IN  IF StrictEquals(num, num)
           THEN Return(num)
           ELSE ThrowTypeError(Message(
                  "Float cannot represent non numeric value: ",
                  ToStringChars(outputValue), ""))

(* Variant: the empty string not singled out, so that it converts to 0. *)
Float_parseValue_NoEmptyCheck(inputValue) ==
  LET num == Number(inputValue)
  IN  IF StrictEquals(num, num)
      THEN Return(num)
      ELSE ThrowTypeError(Message(
             "Float cannot represent non numeric value: ",
             ToStringChars(inputValue), ""))

Float_parseValue(inputValue) ==
  IF StrictEquals(inputValue, EmptyString)
  THEN ThrowTypeError(Message(
         "Float cannot represent non numeric value: (empty string)", << >>, ""))
  ELSE LET num == Number(inputValue)
       IN  IF StrictEquals(num, num)
           THEN Return(num)
           ELSE ThrowTypeError(Message(
                  "Float cannot represent non numeric value: ",
                  ToStringChars(inputValue), ""))

----------------------------------------------------------------------------
(* GraphQLString *)

(* Variant: inspect(outputValue) in place of String(outputValue): a string *)
(* comes back in double quotes.                                            *)
String_serialize_Inspect(outputValue) ==
  IF ArrayIsArray(outputValue)
  THEN ThrowTypeError(Message(
         "String cannot represent an array value: [",
         ToStringChars(outputValue), "]"))
  ELSE IF outputValue.t = "string"
  THEN Return(JSString(<<"\"">> \o outputValue.chars \o <<"\"">>))
  ELSE Return(String(outputValue))

String_serialize(outputValue) ==
  IF ArrayIsArray(outputValue)
  THEN ThrowTypeError(Message(
         "String cannot represent an array value: [",
         ToStringChars(outputValue), "]"))
  ELSE Return(String(outputValue))

(* Variant: no array check, so that an array is joined. *)
String_parseValue_NoArrayCheck(inputValue) == Return(String(inputValue))

String_parseValue(inputValue) ==
  IF ArrayIsArray(inputValue)
  THEN ThrowTypeError(Message(
         "String cannot represent an array value: [",
         ToStringChars(inputValue), "]"))
  ELSE Return(String(inputValue))

----------------------------------------------------------------------------
(* GraphQLBoolean *)

Boolean_serialize(outputValue) == Return(Boolean(outputValue))

Boolean_parseValue(inputValue) == Return(Boolean(inputValue))

----------------------------------------------------------------------------
(* GraphQLID *)

ID_serialize(outputValue) == Return(String(outputValue))

ID_parseValue(inputValue) == Return(String(inputValue))

(* Variant: the text of an INT node goes through parseInt. *)
ID_parseLiteral_Numeric(ast) ==
  IF ast.kind = Kind.INT
  THEN Return(String(parseInt10(ToStringChars(ast.value))))
  ELSE IF ast.kind = Kind.STRING THEN Return(ast.value)
  ELSE Return(Undefined)

ID_parseLiteral(ast) ==
  IF ast.kind = Kind.STRING \/ ast.kind = Kind.INT
  THEN Return(ast.value)
  ELSE Return(Undefined)

----------------------------------------------------------------------------
(* The registry.  A definition is its name and the identity of the object. *)

GraphQLString == [name |-> "String", ref |-> "GraphQLString"]
GraphQLInt == [name |-> "Int", ref |-> "GraphQLInt"]
GraphQLFloat == [name |-> "Float", ref |-> "GraphQLFloat"]
GraphQLBoolean == [name |-> "Boolean", ref |-> "GraphQLBoolean"]
GraphQLID == [name |-> "ID", ref |-> "GraphQLID"]

(* Object.freeze(array) *)
ObjectFreeze(items) == [items |-> items, frozen |-> TRUE]

InitialSpecifiedScalarTypes ==
  ObjectFreeze(<<GraphQLString, GraphQLInt, GraphQLFloat, GraphQLBoolean,
                 GraphQLID>>)

(* Variant: membership by object identity (includes). *)
isSpecifiedScalarType_ByIdentity(list, type) ==
  \E i \in 1..Len(list.items) : type = list.items[i]

isSpecifiedScalarType(list, type) ==
  \E i \in 1..Len(list.items) : type.name = list.items[i].name

----------------------------------------------------------------------------
(* serializeObject *)

(* Variant: toJSON probed before valueOf. *)
serializeObject_ToJSONFirst(outputValue) ==
  LET valueOf == GetMethod(outputValue, "valueOf")
      toJSON == GetMethod(outputValue, "toJSON")
  IN  IF isObjectLike(outputValue) /\ IsFunction(toJSON)
      THEN Invoke(outputValue, toJSON)
      ELSE IF /\ isObjectLike(outputValue)
              /\ IsFunction(valueOf)
              /\ ~isObjectLike(Invoke(outputValue, valueOf))
      THEN Invoke(outputValue, valueOf)
      ELSE outputValue

serializeObject(outputValue) ==
  LET valueOf == GetMethod(outputValue, "valueOf")
      toJSON == GetMethod(outputValue, "toJSON")
  IN  IF /\ isObjectLike(outputValue)
         /\ IsFunction(valueOf)
         /\ ~isObjectLike(Invoke(outputValue, valueOf))
      THEN Invoke(outputValue, valueOf)
      ELSE IF isObjectLike(outputValue) /\ IsFunction(toJSON)
      THEN Invoke(outputValue, toJSON)
      ELSE outputValue

----------------------------------------------------------------------------
(* The inputs. *)

MaxArrLen == 2

RECURSIVE AddNat(_, _)
AddNat(ds, k) == IF k = 0 THEN ds ELSE AddNat(Plus1(ds), k - 1)

(* Integers of the 32-bit range: the small ones, 42, and those at its ends. *)
Int32Samples ==
  (-MaxSmall..MaxSmall) \cup {42}
  \cup {GRAPHQL_MAX_INT - d : d \in 0..MaxDelta}
  \cup {GRAPHQL_MIN_INT + d : d \in 0..MaxDelta}

InRangeIntegers == {FromInt(n) : n \in Int32Samples}

(* Integers outside the range: just above, just below, and 99999999999. *)
OutOfRangeIntegers ==
  {Finite(FALSE, AddNat(NatDigits(GRAPHQL_MAX_INT), k), << >>) : k \in 1..MaxDelta}
  \cup {Finite(TRUE, AddNat(NegDigits(GRAPHQL_MIN_INT), k), << >>) : k \in 1..MaxDelta}
  \cup {Finite(FALSE, <<9, 9, 9, 9, 9, 9, 9, 9, 9, 9, 9>>, << >>)}

NegativeZero == Finite(TRUE, <<0>>, << >>)

IntegerNumbers == InRangeIntegers \cup OutOfRangeIntegers \cup {NegativeZero}

(* x.5 for each of the integers, and 3.14 *)
FractionalNumbers ==
  {Finite(x.neg, x.int, <<5>>) : x \in IntegerNumbers}
  \cup {Finite(FALSE, <<3>>, <<1, 4>>)}

Numbers ==
  IntegerNumbers \cup FractionalNumbers
  \cup {NaN, Infinity(FALSE), Infinity(TRUE)}

Alphabet == {"0", "1", "7", "-", ".", " ", "a"}

SampleTexts ==
  {<<"1", "2", "3">>, <<"x">>, Chars_true, <<"0", "0", "7">>, <<" ", "4", "2", " ">>}

Texts ==
  UNION {[1..k -> Alphabet] : k \in 0..MaxStrLen}
  \cup SampleTexts
  \cup {NumberToString(x) : x \in Numbers}

Strings == {JSString(cs) : cs \in Texts}

Booleans == {JSBoolean(TRUE), JSBoolean(FALSE)}

Primitives == {Undefined, Null} \cup Booleans \cup Numbers \cup Strings

ArrayElements ==
  {Null, FromInt(1), FromInt(2), EmptyString, JSString(<<"7">>), JSBoolean(TRUE)}

Arrays == {JSArray(items) : items \in UNION {[1..k -> ArrayElements] : k \in 0..MaxArrLen}}

PlainObject == JSObject(Function(This), Absent)

MethodResults ==
  {This, Undefined, Null, FromInt(5), Finite(FALSE, <<1>>, <<5>>),
   JSString(<<"7">>), JSArray(<< >>), PlainObject}

Methods == {Absent} \cup {Function(r) : r \in MethodResults}

Objects == {JSObject(valueOf, toJSON) : valueOf \in Methods, toJSON \in Methods}

Values == Primitives \cup Arrays \cup Objects

(* The text of an INT token, with or without leading zeros. *)
IsIntText(cs) ==
  LET ds == IF cs # << >> /\ Head(cs) = "-" THEN Tail(cs) ELSE cs
  IN  ds # << >> /\ AllDigits(ds)

(* The text of a FLOAT token (no exponent). *)
IsFloatText(cs) ==
  \E i \in 1..Len(cs) :
    /\ cs[i] = "."
    /\ IsIntText(SubSeq(cs, 1, i - 1))
    /\ i < Len(cs)
    /\ AllDigits(SubSeq(cs, i + 1, Len(cs)))

Nodes ==
  {Node(Kind.INT, JSString(cs)) : cs \in {x \in Texts : IsIntText(x)}}
  \cup {Node(Kind.FLOAT, JSString(cs)) : cs \in {x \in Texts : IsFloatText(x)}}
  \cup {Node(Kind.STRING, s) : s \in Strings}
  \cup {Node(Kind.BOOLEAN, b) : b \in Booleans}
  \cup {Node(Kind.NULL, Undefined)}
  \cup {Node(Kind.ENUM, JSString(<<"a">>)), Node(Kind.ENUM, JSString(<<"x">>))}

TypeNames == {"String", "Int", "Float", "Boolean", "ID", "DateTime", "string", "Id"}

NamedTypes ==
  {GraphQLString, GraphQLInt, GraphQLFloat, GraphQLBoolean, GraphQLID}
  \cup {[name |-> n, ref |-> "custom"] : n \in TypeNames}

----------------------------------------------------------------------------------------------------------------------------------------
(* The state: the registry, the argument at hand, and the last call on it  *)
(* with its outcome.  chained is the outcome of the serialize call whose   *)
(* returned value is the argument of this one, when there is such a call.  *)

VARIABLES specifiedScalarTypes, op, arg, result, chained

vars == <<specifiedScalarTypes, op, arg, result, chained>>

None == [kind |-> "none"]

Init ==
  /\ specifiedScalarTypes = InitialSpecifiedScalarTypes
  /\ op = "none"
  /\ arg \in Values \cup Nodes \cup NamedTypes
  /\ result = None
  /\ chained = None

(* The call `name` on the argument at hand has outcome r. *)
Called(name, r) ==
  /\ op = "none"
  /\ op' = name
  /\ result' = r
  /\ UNCHANGED <<specifiedScalarTypes, arg, chained>>

IntSerialize == arg \in Values /\ Called("Int.serialize", Int_serialize(arg))

IntParseValue == arg \in Values /\ Called("Int.parseValue", Int_parseValue(arg))

IntParseLiteral == arg \in Nodes /\ Called("Int.parseLiteral", Int_parseLiteral(arg))

FloatSerialize == arg \in Values /\ Called("Float.serialize", Float_serialize(arg))

FloatParseValue == arg \in Values /\ Called("Float.parseValue", Float_parseValue(arg))

StringSerialize == arg \in Values /\ Called("String.serialize", String_serialize(arg))

StringParseValue == arg \in Values /\ Called("String.parseValue", String_parseValue(arg))

BooleanSerialize == arg \in Values /\ Called("Boolean.serialize", Boolean_serialize(arg))

BooleanParseValue == arg \in Values /\ Called("Boolean.parseValue", Boolean_parseValue(arg))

IDSerialize == arg \in Values /\ Called("ID.serialize", ID_serialize(arg))

IDParseValue == arg \in Values /\ Called("ID.parseValue", ID_parseValue(arg))

IDParseLiteral == arg \in Nodes /\ Called("ID.parseLiteral", ID_parseLiteral(arg))

SerializeObject == arg \in Values /\ Called("serializeObject", Return(serializeObject(arg)))

SerializeOps ==
  {"Int.serialize", "Float.serialize", "String.serialize", "Boolean.serialize",
   "ID.serialize"}

Serialize(name, v) ==
  CASE name = "Int.serialize" -> Int_serialize(v)
    [] name = "Float.serialize" -> Float_serialize(v)
    [] name = "String.serialize" -> String_serialize(v)
    [] name = "Boolean.serialize" -> Boolean_serialize(v)
    [] name = "ID.serialize" -> ID_serialize(v)

(* The value a serialize call returned is serialized again by the same     *)
(* scalar.                                                                 *)
SerializeAgain ==
  /\ op \in SerializeOps
  /\ result.kind = "return"
  /\ chained = None
  /\ arg' = result.value
  /\ result' = Serialize(op, result.value)
  /\ chained' = result
  /\ UNCHANGED <<specifiedScalarTypes, op>>

(* A client assigns the type at hand to an element of the exported list:   *)
(* a write to a frozen array throws a TypeError in strict mode and leaves  *)
(* the array as it was.                                                    *)
WriteSpecifiedScalarTypes ==
  \E i \in 1..Len(specifiedScalarTypes.items) :
    /\ arg \in NamedTypes
    /\ op = "none"
    /\ result = None
    /\ IF specifiedScalarTypes.frozen
       THEN /\ result' = ThrowTypeError(Message(
                           "Cannot assign to read only property", << >>, ""))
            /\ UNCHANGED specifiedScalarTypes
       ELSE /\ result' = Return(arg)
            /\ specifiedScalarTypes' =
                 [specifiedScalarTypes EXCEPT !.items[i] = arg]
    /\ UNCHANGED <<op, arg, chained>>

IsSpecifiedScalarType ==
  /\ arg \in NamedTypes
  /\ Called("isSpecifiedScalarType",
            Return(JSBoolean(isSpecifiedScalarType(specifiedScalarTypes, arg))))

Next ==
  \/ IntSerialize
  \/ IntParseValue
  \/ IntParseLiteral
  \/ FloatSerialize
  \/ FloatParseValue
  \/ StringSerialize
  \/ StringParseValue
  \/ BooleanSerialize
  \/ BooleanParseValue
  \/ IDSerialize
  \/ IDParseValue
  \/ IDParseLiteral
  \/ IsSpecifiedScalarType
  \/ SerializeObject
  \/ SerializeAgain
  \/ WriteSpecifiedScalarTypes

Spec == Init /\ [][Next]_vars

----------------------------------------------------------------------------
(* Vocabulary of the properties, stated on the representation of numbers   *)
(* and not through the comparisons the scalars use.                        *)

IntOps == {"Int.serialize", "Int.parseValue"}

MaxIntDigits == <<2, 1, 4, 7, 4, 8, 3, 6, 4, 7>>

MinIntDigits == <<2, 1, 4, 7, 4, 8, 3, 6, 4, 8>>

(* -2147483648 <= x <= 2147483647 for a finite number x *)
WithinInt32(x) ==
  LET limit == IF x.neg THEN MinIntDigits ELSE MaxIntDigits
  IN  \/ Len(x.int) < 10
      \/ /\ Len(x.int) = 10
         /\ \/ LexLess(x.int, limit)
            \/ x.int = limit /\ x.frac = << >>

(* k is an integer with -2147483648 <= k <= 2147483647 *)
IsInt32(k) ==
  /\ k.t = "number"
  /\ IsFinite(k)
  /\ k.frac = << >>
  /\ WithinInt32(k)

TextEmptyInt == "Int cannot represent non 32-bit signed integer value: (empty string)"

TextNonInt32 == "Int cannot represent non 32-bit signed integer value: "

TextNonInteger == "Int cannot represent non-integer value: "

Num_2147483648 == Finite(FALSE, MinIntDigits, << >>)

Num_Minus2147483649 == Finite(TRUE, <<2, 1, 4, 7, 4, 8, 3, 6, 4, 9>>, << >>)

Num_1_5 == Finite(FALSE, <<1>>, <<5>>)

Num_2147483647_5 == Finite(FALSE, MaxIntDigits, <<5>>)

Num_99999999999 == Finite(FALSE, <<9, 9, 9, 9, 9, 9, 9, 9, 9, 9, 9>>, << >>)

Text_007 == <<"0", "0", "7">>

----------------------------------------------------------------------------
(* C1: for every integer n with -2147483648 <= n <= 2147483647,            *)
(* Int.serialize(n) and Int.parseValue(n) succeed and return n, both       *)
(* bounds included.                                                        *)
C1_IntAcceptsInt32 ==
  (op \in IntOps /\ IsInt32(arg)) => result = Return(arg)

C1_Witness ==
  /\ op = "Int.parseValue"
  /\ arg = FromInt(GRAPHQL_MAX_INT)
  /\ arg.int = MaxIntDigits
  /\ result = Return(arg)

(* C2: Int.serialize and Int.parseValue reject in this order: the empty    *)
(* string with its own message; then a numeric conversion that is NaN or   *)
(* outside the 32-bit range with the 32-bit message; then an in-range      *)
(* conversion with a fraction with the non-integer message.  Nothing else  *)
(* is rejected.  2147483648 and -2147483649 fail, 1.5 fails with the       *)
(* non-integer message and 2147483647.5 with the 32-bit message.           *)
C2_IntRejectionOrder ==
  op \in IntOps =>
    LET num == Number(arg)
        outside == ~IsFinite(num) \/ ~WithinInt32(num)
        fractional == IsFinite(num) /\ num.frac # << >>
    IN  /\ arg = EmptyString =>
             result = ThrowTypeError(Message(TextEmptyInt, << >>, ""))
        /\ (arg # EmptyString /\ outside) =>
             result = ThrowTypeError(Message(TextNonInt32, ToStringChars(arg), ""))
        /\ (arg # EmptyString /\ ~outside /\ fractional) =>
             result = ThrowTypeError(Message(TextNonInteger, ToStringChars(arg), ""))
        /\ result.kind = "throw" => (arg = EmptyString \/ outside \/ fractional)
        /\ arg \in {Num_2147483648, Num_Minus2147483649} => result.kind = "throw"
        /\ arg = Num_1_5 => result.kind = "throw" /\ result.message.text = TextNonInteger
        /\ arg = Num_2147483647_5 =>
             result.kind = "throw" /\ result.message.text = TextNonInt32

C2_Witness ==
  /\ op = "Int.serialize"
  /\ arg = Num_2147483647_5
  /\ result.kind = "throw"
  /\ result.message.text = TextNonInt32

(* C3: Int.parseLiteral never throws: an INT node whose text parses in     *)
(* base 10 to an integer of the 32-bit range yields that integer, an INT   *)
(* node out of range and a node of any other kind yield NotApplicable; the *)
(* same out-of-range number makes Int.serialize and Int.parseValue throw.  *)
C3_IntLiteralNeverThrows ==
  /\ op = "Int.parseLiteral" =>
       LET num == parseInt10(arg.value.chars)
       IN  /\ result.kind = "return"
           /\ (arg.kind = Kind.INT /\ IsInt32(num)) => result.value = num
           /\ (arg.kind = Kind.INT /\ ~IsInt32(num)) => result.value = NotApplicable
           /\ arg.kind # Kind.INT => result.value = NotApplicable
           /\ \A n \in InRangeIntegers :
                arg = Node(Kind.INT, String(n)) => result.value = n
           /\ arg = Node(Kind.INT, String(Num_99999999999)) =>
                result.value = NotApplicable
           /\ arg = Node(Kind.STRING, JSString(<<"1">>)) => result.value = NotApplicable
  /\ (op \in IntOps /\ arg \in OutOfRangeIntegers) => result.kind = "throw"

C3_Witness ==
  /\ op = "Int.parseLiteral"
  /\ arg = Node(Kind.INT, String(Num_99999999999))
  /\ result = Return(NotApplicable)

(* C4: whatever Int.serialize, Int.parseValue or Int.parseLiteral returns, *)
(* other than NotApplicable, is an integer k with                          *)
(* -2147483648 <= k <= 2147483647.                                         *)
C4_IntRange ==
  (/\ op \in IntOps \cup {"Int.parseLiteral"}
   /\ result.kind = "return"
   /\ result.value # NotApplicable) => IsInt32(result.value)

C4_Witness ==
  /\ op = "Int.serialize"
  /\ arg = JSArray(<< >>)
  /\ result = Return(FromInt(0))

(* C5: for each of the five scalars, when serialize succeeds on v it also  *)
(* succeeds on its result, and serialize(serialize(v)) = serialize(v).     *)
C5_SerializeIdempotent ==
  (op \in SerializeOps /\ chained # None) => result = chained

C5_Witness ==
  /\ op = "Float.serialize"
  /\ chained = Return(Num_1_5)
  /\ arg = Num_1_5
  /\ result = Return(Num_1_5)

(* C6: String.serialize and String.parseValue throw the array message      *)
(* exactly when the input is an array, the empty one included, and         *)
(* otherwise return the string conversion of the input (42 -> "42"); no    *)
(* array is joined into a string.                                          *)
C6_StringRejectsArrays ==
  op \in {"String.serialize", "String.parseValue"} =>
    /\ result.kind = "throw" <=> arg.t = "array"
    /\ arg.t = "array" =>
         result = ThrowTypeError(Message("String cannot represent an array value: [",
                                         ArrayJoin(arg.items), "]"))
    /\ arg.t # "array" => result = Return(JSString(ToStringChars(arg)))
    /\ arg = FromInt(42) => result = Return(JSString(<<"4", "2">>))

C6_Witness ==
  /\ op = "String.parseValue"
  /\ arg = JSArray(<< >>)
  /\ result.kind = "throw"

(* C7: Float.serialize and Float.parseValue: the empty string throws its   *)
(* own message, any other input whose numeric conversion is NaN throws the *)
(* non-numeric message, every other input returns its numeric conversion;  *)
(* 2147483648 and 1.5 come back unchanged and "3.14" gives 3.14.           *)
C7_FloatAcceptsAllNumbers ==
  op \in {"Float.serialize", "Float.parseValue"} =>
    /\ arg = EmptyString =>
         result = ThrowTypeError(Message(
                    "Float cannot represent non numeric value: (empty string)",
                    << >>, ""))
    /\ (arg # EmptyString /\ IsNaN(Number(arg))) =>
         result = ThrowTypeError(Message("Float cannot represent non numeric value: ",
                                         ToStringChars(arg), ""))
    /\ (arg # EmptyString /\ ~IsNaN(Number(arg))) => result = Return(Number(arg))
    /\ arg \in {Num_2147483648, Num_1_5} => result = Return(arg)
    /\ arg = JSString(<<"3", ".", "1", "4">>) =>
         result = Return(Finite(FALSE, <<3>>, <<1, 4>>))

C7_Witness ==
  /\ op = "Float.parseValue"
  /\ arg = Num_2147483648
  /\ result = Return(Num_2147483648)

(* C8: ID.parseLiteral returns the text of a STRING or INT node unchanged  *)
(* (INT("007") gives "007", where Int.parseLiteral gives 7) and            *)
(* NotApplicable for every other kind.                                     *)
C8_IDLiteralKeepsText ==
  /\ op = "ID.parseLiteral" =>
       /\ arg.kind \in {Kind.STRING, Kind.INT} =>
            result = Return(arg.value) /\ result.value.t = "string"
       /\ arg.kind \notin {Kind.STRING, Kind.INT} => result = Return(NotApplicable)
       /\ arg = Node(Kind.INT, JSString(Text_007)) => result.value.chars = Text_007
  /\ (op = "Int.parseLiteral" /\ arg = Node(Kind.INT, JSString(Text_007))) =>
       result = Return(FromInt(7))

C8_Witness ==
  /\ op = "ID.parseLiteral"
  /\ arg = Node(Kind.INT, JSString(Text_007))
  /\ result = Return(JSString(Text_007))

(* C9: specifiedScalarTypes is frozen and always holds String, Int, Float, *)
(* Boolean, ID, each once and in this order; isSpecifiedScalarType(t) is   *)
(* true exactly when t.name is one of the five names, whichever object t   *)
(* is.                                                                     *)
C9_RegistryFixed ==
  /\ specifiedScalarTypes.frozen
  /\ specifiedScalarTypes.items =
       <<GraphQLString, GraphQLInt, GraphQLFloat, GraphQLBoolean, GraphQLID>>
  /\ [i \in 1..5 |-> specifiedScalarTypes.items[i].name] =
       <<"String", "Int", "Float", "Boolean", "ID">>
  /\ op = "isSpecifiedScalarType" =>
       result = Return(JSBoolean(arg.name \in {"String", "Int", "Float", "Boolean", "ID"}))

C9_Witness ==
  /\ op = "isSpecifiedScalarType"
  /\ arg = [name |-> "Int", ref |-> "custom"]
  /\ result = Return(JSBoolean(TRUE))

(* C10: serializeObject(v) returns v.valueOf() when v is object-like, has  *)
(* valueOf and the result is not object-like, toJSON or not; otherwise     *)
(* v.toJSON() when v is object-like and has toJSON; otherwise v, and       *)
(* always v when v is not object-like.                                     *)
C10_SerializeObjectPrecedence ==
  op = "serializeObject" =>
    LET extracts == /\ arg.t = "object"
                    /\ arg.valueOf.is = "function"
                    /\ arg.valueOf.returns # This
                    /\ arg.valueOf.returns.t \notin {"array", "object"}
        hasToJSON == arg.t = "object" /\ arg.toJSON.is = "function"
    IN  /\ result.kind = "return"
        /\ extracts => result.value = arg.valueOf.returns
        /\ (~extracts /\ hasToJSON) =>
             result.value = (IF arg.toJSON.returns = This THEN arg
                             ELSE arg.toJSON.returns)
        /\ (~extracts /\ ~hasToJSON) => result.value = arg
        /\ arg.t \notin {"array", "object"} => result.value = arg

C10_Witness ==
  /\ op = "serializeObject"
  /\ arg = JSObject(Function(PlainObject), Function(JSString(<<"7">>)))
  /\ result = Return(JSString(<<"7">>))

====
